---------------------------- MODULE Spec2Model ----------------------------
(***************************************************************************)
(* Model of the markdown -> OpenDocument presentation converter            *)
(* (src/convert_manual_to_odp.py, class FixedManualToODPConverter) and of  *)
(* the PDF to text script (src/scripts/pdf_to_txt.py).                     *)
(*                                                                         *)
(* A Python str is a sequence of one-character strings, so that slicing,   *)
(* replace, split, strip and the regular-expression filter are computed    *)
(* character by character, as the interpreter computes them.               *)
(***************************************************************************)
EXTENDS Integers, Sequences, FiniteSets, TLC

VARIABLES
    text0,            \* the string first handed to escape_xml
    escaped,          \* the successive results of escape_xml, oldest first
    lines,            \* parse_content: the lines still to be iterated
    line,             \* parse_content: the loop variable, after strip()
    current_slide,    \* parse_content: None or the open slide record
    current_content,  \* parse_content: blocks collected for the open slide
    slides,           \* self.slides of the parsing converter
    ppc,              \* parse_content: "idle", "loop" or "done"; "written" once
                      \* create_content_xml has run on the result
    markdown,         \* parse_content: the content it was called with
    content_lines,    \* create_content_xml: the lines it writes to content.xml
    slide_data,       \* create_slide_xml_lines: the slide record handed in
    items,            \* create_slide_xml_lines: content items still to iterate
    content_y,        \* create_slide_xml_lines: running offset, in tenths of a cm
    content_count,    \* create_slide_xml_lines: content shapes emitted so far
    xml_lines,        \* create_slide_xml_lines: the page built so far
    gpc,              \* create_slide_xml_lines: "idle", "loop" or "done"
    conv,             \* per conversion run: position in convert(), locals, self.slides
    staging,          \* the directory 'temp_odp_fixed' of the working directory
    archive,          \* per conversion run: the zip file at self.output_file
    args,             \* pdf_to_txt.py main: the parsed command line
    fs,               \* pdf_to_txt.py: the files and directories on disk
    taken,            \* pdf_to_txt.py main: PDFs the loop has taken so far (i)
    results,          \* pdf_to_txt.py main: the (ok, msg) pairs collected
    extract_calls,    \* pdf_to_txt.py: the PDFs extract_text was called on
    mpc,              \* pdf_to_txt.py main: "idle", "pages", "loop", "returned", "raised"
    exit_status       \* pdf_to_txt.py main: None or the value returned

escVars == <<text0, escaped>>
parseVars == <<lines, line, current_slide, current_content, slides, ppc,
               markdown, content_lines>>
slideVars == <<slide_data, items, content_y, content_count, xml_lines, gpc>>
convVars == <<conv, staging, archive>>
pdfVars == <<args, fs, taken, results, extract_calls, mpc, exit_status>>
vars == <<escVars, parseVars, slideVars, convVars, pdfVars>>

\* Python's None; a present value x is <<x>>
None == <<>>
Some(x) == <<x>>

----------------------------------------------------------------------------
(* Bounds of the checked input spaces.                                     *)

MaxStrLen == 3      \* longest string handed to escape_xml
MaxCalls == 2       \* escape_xml is applied at most this often in a row
MaxLineLen == 5     \* longest free-form document line
MaxTitleLen == 3    \* longest free-form remainder of a "## " line
MaxBlocks == 10     \* most content blocks of a slide handed to the generator
MaxOdd == 2         \* most blocks of such a slide that are not the plain block
MaxDocLines == 4    \* most lines of a multi-line document
MaxPdfs == 3        \* most PDFs listed on the command line of pdf_to_txt.py
MaxOld == 1         \* most .txt files on disk before pdf_to_txt.py runs

Strings(A, n) == UNION {[1..k -> A] : k \in 0..n}

----------------------------------------------------------------------------
(* The str methods the converter uses.                                     *)

Whitespace == {" ", "\n"}

startswith(s, p) == Len(s) >= Len(p) /\ SubSeq(s, 1, Len(p)) = p

endswith(s, p) == Len(s) >= Len(p) /\ SubSeq(s, Len(s) - Len(p) + 1, Len(s)) = p

\* s[i:] for i >= 0
SliceFrom(s, i) == SubSeq(s, i + 1, Len(s))

\* s[i:-j] for i >= 0, j > 0
SliceBetween(s, i, j) == SubSeq(s, i + 1, Len(s) - j)

RECURSIVE lstrip(_)
lstrip(s) ==
    IF s # <<>> /\ Head(s) \in Whitespace THEN lstrip(Tail(s)) ELSE s

RECURSIVE rstrip(_)
rstrip(s) ==
    IF s # <<>> /\ s[Len(s)] \in Whitespace
    THEN rstrip(SubSeq(s, 1, Len(s) - 1))
    ELSE s

strip(s) == rstrip(lstrip(s))

\* s.replace(ch, rep) for a one-character pattern ch
RECURSIVE replace(_, _, _)
replace(s, ch, rep) ==
    IF s = <<>> THEN <<>>
    ELSE (IF Head(s) = ch THEN rep ELSE <<Head(s)>>) \o replace(Tail(s), ch, rep)

\* s.split(sep) for a one-character separator: always at least one segment
RECURSIVE split(_, _)
split(s, sep) ==
    IF \E i \in 1..Len(s) : s[i] = sep
    THEN LET i == CHOOSE k \in 1..Len(s) :
                      s[k] = sep /\ \A j \in 1..(k - 1) : s[j] # sep
         IN  <<SubSeq(s, 1, i - 1)>> \o split(SubSeq(s, i + 1, Len(s)), sep)
    ELSE <<s>>

\* sep.join(parts)
RECURSIVE join(_, _)
join(parts, sep) ==
    IF parts = <<>> THEN <<>>
    ELSE IF Len(parts) = 1 THEN parts[1]
    ELSE parts[1] \o sep \o join(Tail(parts), sep)

contains(s, ch) == \E i \in 1..Len(s) : s[i] = ch

----------------------------------------------------------------------------
(* escape_xml                                                              *)

Amp == <<"&", "a", "m", "p", ";">>
Lt == <<"&", "l", "t", ";">>
Gt == <<"&", "g", "t", ";">>
Quot == <<"&", "q", "u", "o", "t", ";">>
Apos == <<"&", "a", "p", "o", "s", ";">>

\* html.escape(s, quote=False): & first, then < and >
html_escape(s) == replace(replace(replace(s, "&", Amp), "<", Lt), ">", Gt)

escape_xml(s) ==
    IF s = <<>> THEN <<>>
    ELSE LET t0 == html_escape(s)
             t1 == replace(t0, "&", Amp)
             t2 == replace(t1, "<", Lt)
             t3 == replace(t2, ">", Gt)
             t4 == replace(t3, "\"", Quot)
         IN  replace(t4, "'", Apos)

----------------------------------------------------------------------------
(* parse_content                                                           *)

Letters == {"a", "b", "c", "d", "e", "f", "g", "h", "i", "j", "k", "l", "m",
            "n", "o", "p", "q", "r", "s", "t", "u", "v", "w", "x", "y", "z"}
Digits == {"0", "1", "2", "3", "4", "5", "6", "7", "8", "9"}

\* the character class [\w\s\-] of the title filter
TitleClass == Letters \cup Digits \cup {"_"} \cup Whitespace \cup {"-"}

\* the filter with the hyphen left out of the class: r'[^\w\s]'
RECURSIVE re_sub_title_no_hyphen(_)
re_sub_title_no_hyphen(title) ==
    IF title = <<>> THEN <<>>
    ELSE (IF Head(title) \in TitleClass \ {"-"} THEN <<Head(title)>> ELSE <<>>)
         \o re_sub_title_no_hyphen(Tail(title))

\* re.sub(r'[^\w\s\-]', '', title)
RECURSIVE re_sub_title(_)
re_sub_title(title) ==
    IF title = <<>> THEN <<>>
    ELSE (IF Head(title) \in TitleClass THEN <<Head(title)>> ELSE <<>>)
         \o re_sub_title(Tail(title))

Block(type, txt) == [type |-> type, text |-> txt]

\* cells = [cell.strip() for cell in line.split('|')[1:-1]]
table_cells(ln) ==
    LET parts == split(ln, "|")
    IN  [i \in 1..(Len(parts) - 2) |-> strip(parts[i + 1])]

\* the table branch: what a line starting with '|' and holding a second '|' appends
table_blocks(ln) ==
    IF contains(ln, "|") /\ ~startswith(ln, <<"|", "-", "-", "-">>)
    THEN LET cells == table_cells(ln)
         IN  IF cells # <<>> /\ cells[1] # <<>>
             THEN <<Block("text", join(cells, <<" ", "|", " ">>))>>
             ELSE <<>>
    ELSE <<>>

\* the if/elif chain applied to a non-empty line of an open slide: the blocks
\* it appends to current_content (none or one)
content_blocks(ln) ==
    IF startswith(ln, <<"#", "#", "#", " ">>)
    THEN <<Block("subtitle", strip(SliceFrom(ln, 4)))>>
    ELSE IF startswith(ln, <<"-", " ">>)
    THEN <<Block("bullet", strip(SliceFrom(ln, 2)))>>
    ELSE IF startswith(ln, <<"*", "*">>) /\ endswith(ln, <<"*", "*">>)
    THEN <<Block("bold", strip(SliceBetween(ln, 2, 2)))>>
    ELSE IF startswith(ln, <<"|">>) /\ contains(SliceFrom(ln, 1), "|")
    THEN table_blocks(ln)
    ELSE IF ln # <<>> /\ ~startswith(ln, <<"-", "-", "-">>)
    THEN <<Block("text", ln)>>
    ELSE <<>>

\* the title test with the marker's trailing space left out
is_title_line_no_space(ln) == startswith(ln, <<"#", "#">>)

is_title_line(ln) ==
    startswith(ln, <<"#", "#", " ">>) /\ ~startswith(ln, <<"#", "#", "#", " ">>)

\* the slide record opened by a "## " line
new_slide(ln) ==
    [title |-> re_sub_title(strip(SliceFrom(ln, 3))), content |-> <<>>]

\* current_slide['content'] = current_content; self.slides.append(current_slide)
append_slide(sl, cur, content) ==
    IF cur # None
    THEN Append(sl, [title |-> cur[1].title, content |-> content])
    ELSE sl

\* one iteration of the for loop, on the parser state st and the raw line
parse_line(st, raw) ==
    LET ln == strip(raw)
    IN  IF is_title_line(ln)
        THEN [line |-> ln,
              slides |-> append_slide(st.slides, st.current_slide, st.current_content),
              current_slide |-> Some(new_slide(ln)),
              current_content |-> <<>>]
        ELSE IF st.current_slide # None /\ ln # <<>>
        THEN [st EXCEPT !.line = ln,
                        !.current_content = st.current_content \o content_blocks(ln)]
        ELSE [st EXCEPT !.line = ln]

\* the statements after the loop with the final append left out
parse_end_no_append(st) == st

\* the statements after the loop
parse_end(st) ==
    [st EXCEPT !.slides = append_slide(st.slides, st.current_slide, st.current_content)]

ParserState ==
    [line |-> line, slides |-> slides, current_slide |-> current_slide,
     current_content |-> current_content]

SetParser(st) ==
    /\ line' = st.line
    /\ slides' = st.slides
    /\ current_slide' = st.current_slide
    /\ current_content' = st.current_content

----------------------------------------------------------------------------
(* create_slide_xml_lines.  Lengths are in tenths of a centimetre, the     *)
(* precision content_y is printed with.  One record stands for the five    *)
(* lines of a draw:frame, its attributes and its paragraph.                *)

ContentCap == 8
ContentY0 == 40
SubtitleStep == 8
BulletStep == 5
TextStep == 4

BulletGlyph == <<"BULLET", " ">>

PageOpen(slide_number) == [tag |-> "draw:page", name |-> slide_number + 1]
PageClose == [tag |-> "/draw:page"]

Frame(gr, p, height, x, y, txt) ==
    [tag |-> "draw:frame", gr |-> gr, p |-> p, height |-> height,
     x |-> x, y |-> y, text |-> txt]

\* the title shape: svg:x="1.4cm" svg:y="0.3cm"
TitleFrame(title) == Frame("gr1", "P1", "3.506cm", 14, 3, escape_xml(title))

\* the statements before the content loop
slide_begin(slide, slide_number) ==
    [xml_lines |-> <<PageOpen(slide_number), TitleFrame(slide.title)>>,
     content_y |-> ContentY0,
     content_count |-> 0]

\* one iteration of the content loop that does not break: the item is
\* skipped, or emitted according to its type
slide_item(st, content_item) ==
    IF content_item.text = <<>>
    THEN st
    ELSE LET escaped_text == escape_xml(content_item.text)
         IN  IF content_item.type = "subtitle"
             THEN [xml_lines |-> Append(st.xml_lines,
                       Frame("gr2", "P2", 6, 14, st.content_y + SubtitleStep, escaped_text)),
                   content_y |-> st.content_y + SubtitleStep,
                   content_count |-> st.content_count + 1]
             ELSE IF content_item.type = "bullet"
             THEN [xml_lines |-> Append(st.xml_lines,
                       Frame("gr3", "P3", 5, 20, st.content_y + BulletStep,
                             BulletGlyph \o escaped_text)),
                   content_y |-> st.content_y + BulletStep,
                   content_count |-> st.content_count + 1]
             ELSE IF content_item.type = "text"
             THEN [xml_lines |-> Append(st.xml_lines,
                       Frame("gr3", "P3", 4, 14, st.content_y + TextStep, escaped_text)),
                   content_y |-> st.content_y + TextStep,
                   content_count |-> st.content_count + 1]
             ELSE st

\* the content loop over the items left
RECURSIVE slide_loop(_, _)
slide_loop(st, its) ==
    IF its = <<>> \/ st.content_count >= ContentCap
    THEN st
    ELSE slide_loop(slide_item(st, Head(its)), Tail(its))

create_slide_xml_lines(slide, slide_number) ==
    Append(slide_loop(slide_begin(slide, slide_number), slide.content).xml_lines,
           PageClose)

SlideState ==
    [xml_lines |-> xml_lines, content_y |-> content_y, content_count |-> content_count]

SetSlide(st) ==
    /\ xml_lines' = st.xml_lines
    /\ content_y' = st.content_y
    /\ content_count' = st.content_count

----------------------------------------------------------------------------
(* parse_content and create_content_xml as convert() runs them: whole.     *)

RECURSIVE parse_lines(_, _)
parse_lines(st, ls) ==
    IF ls = <<>> THEN st ELSE parse_lines(parse_line(st, Head(ls)), Tail(ls))

\* self.slides after parse_content(content) on a converter holding self_slides
parse_content(self_slides, content) ==
    parse_end(parse_lines([line |-> <<>>, slides |-> self_slides,
                           current_slide |-> None, current_content |-> <<>>],
                          split(content, "\n"))).slides

\* the fixed head and tail of content.xml, one entry per element
ContentHead ==
    <<[tag |-> "?xml"], [tag |-> "office:document-content"],
      [tag |-> "office:scripts/"], [tag |-> "office:font-face-decls/"],
      [tag |-> "office:automatic-styles"], [tag |-> "/office:automatic-styles"],
      [tag |-> "office:master-styles"], [tag |-> "/office:master-styles"],
      [tag |-> "office:body"], [tag |-> "office:presentation"]>>

ContentTail ==
    <<[tag |-> "/office:presentation"], [tag |-> "/office:body"],
      [tag |-> "/office:document-content"]>>

RECURSIVE slide_pages(_, _)
slide_pages(sl, i) ==
    IF i >= Len(sl) THEN <<>>
    ELSE create_slide_xml_lines(sl[i + 1], i) \o slide_pages(sl, i + 1)

\* the text create_content_xml writes to content.xml
content_xml(sl) == ContentHead \o slide_pages(sl, 0) \o ContentTail

----------------------------------------------------------------------------
(* The staging directory and the archive.                                  *)

MimetypeLiteral == "application/vnd.oasis.opendocument.presentation"

ZIP_STORED == "ZIP_STORED"
ZIP_DEFLATED == "ZIP_DEFLATED"

\* the files create_fixed_odp writes, in the order it writes them
StagedFiles ==
    <<"mimetype", "META-INF/manifest.xml", "content.xml", "styles.xml", "meta.xml">>
StagedNames == {StagedFiles[i] : i \in 1..Len(StagedFiles)}

\* the order os.walk visits the files: the top directory, then META-INF.
\* Within a directory the order is the file system's; one order is fixed
\* here, and no property below depends on it.
WalkOrder == <<"content.xml", "meta.xml", "mimetype", "styles.xml", "META-INF/manifest.xml">>

NoStaging == [exists |-> FALSE, meta_inf |-> FALSE, files |-> [f \in StagedNames |-> None]]

\* what run r writes to staged file f
file_data(c, f) ==
    CASE f = "mimetype" -> MimetypeLiteral
      [] f = "META-INF/manifest.xml" -> "manifest_content"
      [] f = "content.xml" -> content_xml(c.slides)
      [] f = "styles.xml" -> "styles_content"
      [] f = "meta.xml" -> "meta_content"

\* the directory a staged file is opened in exists
parent_exists(f) ==
    IF f = "META-INF/manifest.xml" THEN staging.meta_inf ELSE staging.exists

\* ZipFile.write(filename, arcname): compress_type defaults to the archive's
zip_entry(f) ==
    [name |-> f, compress_type |-> ZIP_DEFLATED,
     data |-> staging.files[f][1].data, writer |-> staging.files[f][1].writer]

----------------------------------------------------------------------------
(* Input spaces.                                                           *)

EscapeAlphabet == {"&", "<", ">", "\"", "'", "a", "1"}
EscapeInputs == Strings(EscapeAlphabet, MaxStrLen)

LineAlphabet == {"#", " ", "-", "*", "|", "a", "&"}
FreeLines == Strings(LineAlphabet, MaxLineLen)

TitleAlphabet == {"&", "<", ">", "\"", "'", "!", "a", "_", "1", " ", "-"}
FreeTitles == Strings(TitleAlphabet, MaxTitleLen)

OpenSlideLine == <<"#", "#", " ", "a", "\n">>

\* documents of one free-form line, alone or under an open slide, and
\* documents of one "## " line with a free-form remainder
LineDocs ==
    FreeLines
    \cup {OpenSlideLine \o l : l \in FreeLines}
    \cup {<<"#", "#", " ">> \o t : t \in FreeTitles}

\* the raw lines multi-line documents are made of: level-2 marker lines
\* (one indented, one with a character the title filter removes), a marker
\* with nothing after it, a deeper marker, a bullet, plain text, a blank line
DocLineKinds ==
    {<<"#", "#", " ", "a">>,
     <<"#", "#", " ", "b", "!">>,
     <<" ", "#", "#", " ", "c">>,
     <<"#", "#", " ">>,
     <<"#", "#", "#", " ", "s">>,
     <<"-", " ", "b">>,
     <<"t">>,
     <<>>}

\* slide records as parse_content builds them: only a bold block can have
\* an empty text
PlainBlock == Block("text", <<"t">>)
OddBlocks ==
    {Block("subtitle", <<"s">>), Block("bullet", <<"b">>), Block("bold", <<"x">>),
     Block("bold", <<>>), Block("text", <<"&">>)}

\* n blocks: those at the places P are the odd blocks f gives, the rest plain
SlideContent(n, P, f) == [i \in 1..n |-> IF i \in P THEN f[i] ELSE PlainBlock]

OddPlaces(n) == {P \in SUBSET (1..n) : Cardinality(P) <= MaxOdd}

\* the conversion runs sharing one working directory, and the documents
\* their markdown files may hold
Runs == {"A", "B"}

ConvertDocs ==
    {<<"#", "#", " ", "a", "\n", "-", " ", "b">>,
     <<"#", "#", " ", "c">>,
     <<"t">>}

----------------------------------------------------------------------------
(* Initial state: a freshly constructed converter, nothing called yet.     *)

Init ==
    /\ text0 = <<>>
    /\ escaped = <<>>
    /\ lines = <<>>
    /\ line = <<>>
    /\ current_slide = None
    /\ current_content = <<>>
    /\ slides = <<>>
    /\ ppc = "idle"
    /\ markdown = <<>>
    /\ content_lines = <<>>
    /\ slide_data = None
    /\ items = <<>>
    /\ content_y = 0
    /\ content_count = 0
    /\ xml_lines = <<>>
    /\ gpc = "idle"
    /\ conv = [r \in Runs |->
                  [pc |-> "read", slides |-> <<>>, content |-> None,
                   k |-> 0, todo |-> <<>>, raised |-> None]]
    /\ staging = NoStaging
    /\ archive = [r \in Runs |-> None]
    /\ args = None
    /\ fs = None
    /\ taken = 0
    /\ results = <<>>
    /\ extract_calls = <<>>
    /\ mpc = "idle"
    /\ exit_status = None

----------------------------------------------------------------------------
(* escape_xml called on a string, and again on its own result.             *)

EscapeFirst ==
    /\ escaped = <<>>
    /\ \E s \in EscapeInputs :
           /\ text0' = s
           /\ escaped' = <<escape_xml(s)>>
    /\ UNCHANGED <<parseVars, slideVars, convVars, pdfVars>>

EscapeAgain ==
    /\ escaped # <<>>
    /\ Len(escaped) < MaxCalls
    /\ escaped' = Append(escaped, escape_xml(escaped[Len(escaped)]))
    /\ UNCHANGED <<text0, parseVars, slideVars, convVars, pdfVars>>

NextEscape == EscapeFirst \/ EscapeAgain

SpecEscape == Init /\ [][NextEscape]_vars

----------------------------------------------------------------------------
(* parse_content, one loop iteration per step.                             *)

\* lines = content.split('\n'); current_slide = None; current_content = []
ParseBegin(content) ==
    /\ ppc = "idle"
    /\ lines' = split(content, "\n")
    /\ current_slide' = None
    /\ current_content' = <<>>
    /\ ppc' = "loop"
    /\ markdown' = content
    /\ UNCHANGED <<line, slides, content_lines, escVars, slideVars, convVars, pdfVars>>

ParseLine ==
    /\ ppc = "loop"
    /\ lines # <<>>
    /\ SetParser(parse_line(ParserState, Head(lines)))
    /\ lines' = Tail(lines)
    /\ UNCHANGED <<ppc, markdown, content_lines, escVars, slideVars, convVars, pdfVars>>

ParseFlush ==
    /\ ppc = "loop"
    /\ lines = <<>>
    /\ SetParser(parse_end(ParserState))
    /\ ppc' = "done"
    /\ UNCHANGED <<lines, markdown, content_lines, escVars, slideVars, convVars, pdfVars>>

ParseLineDoc == ppc = "idle" /\ \E content \in LineDocs : ParseBegin(content)

NextLine == ParseLineDoc \/ ParseLine \/ ParseFlush

SpecLine == Init /\ [][NextLine]_vars

----------------------------------------------------------------------------
(* parse_content on a multi-line document, then the content_lines that     *)
(* create_content_xml builds from self.slides.                             *)

ParseDoc ==
    /\ ppc = "idle"
    /\ \E n \in 0..MaxDocLines : \E ls \in [1..n -> DocLineKinds] :
           ParseBegin(join(ls, <<"\n">>))

\* create_content_xml up to the write: head, one page per slide, tail
CreateContentLines ==
    /\ ppc = "done"
    /\ content_lines' = content_xml(slides)
    /\ ppc' = "written"
    /\ UNCHANGED <<lines, line, current_slide, current_content, slides, markdown,
                   escVars, slideVars, convVars, pdfVars>>

NextDoc == ParseDoc \/ ParseLine \/ ParseFlush \/ CreateContentLines

SpecDoc == Init /\ [][NextDoc]_vars

----------------------------------------------------------------------------
(* create_slide_xml_lines, one loop iteration per step.                    *)

SlideBegin(slide, slide_number) ==
    /\ gpc = "idle"
    /\ slide_data' = Some(slide)
    /\ items' = slide.content
    /\ SetSlide(slide_begin(slide, slide_number))
    /\ gpc' = "loop"
    /\ UNCHANGED <<escVars, parseVars, convVars, pdfVars>>

\* if content_count >= 8: break
SlideBreak ==
    /\ gpc = "loop"
    /\ items # <<>>
    /\ content_count >= ContentCap
    /\ items' = <<>>
    /\ UNCHANGED <<slide_data, content_y, content_count, xml_lines, gpc, escVars, parseVars, convVars, pdfVars>>

SlideItem ==
    /\ gpc = "loop"
    /\ items # <<>>
    /\ content_count < ContentCap
    /\ SetSlide(slide_item(SlideState, Head(items)))
    /\ items' = Tail(items)
    /\ UNCHANGED <<slide_data, gpc, escVars, parseVars, convVars, pdfVars>>

\* lines.append('      </draw:page>'); return lines
SlideEnd ==
    /\ gpc = "loop"
    /\ items = <<>>
    /\ xml_lines' = Append(xml_lines, PageClose)
    /\ gpc' = "done"
    /\ UNCHANGED <<slide_data, items, content_y, content_count, escVars, parseVars, convVars, pdfVars>>

SlideInput ==
    /\ gpc = "idle"
    /\ \E n \in 0..MaxBlocks : \E P \in OddPlaces(n) : \E f \in [P -> OddBlocks] :
           SlideBegin([title |-> <<"a">>, content |-> SlideContent(n, P, f)], 0)

NextSlide == SlideInput \/ SlideBreak \/ SlideItem \/ SlideEnd

SpecSlide == Init /\ [][NextSlide]_vars

----------------------------------------------------------------------------
(* convert(), one file-system operation per step, for each run.            *)

Goto(r, label) == conv' = [conv EXCEPT ![r].pc = label]

\* an exception leaves convert(): the run ends where it was raised
Raise(r) == conv' = [conv EXCEPT ![r].pc = "failed", ![r].raised = Some(conv[r].pc)]

\* content = self.read_markdown()
ReadMarkdown(r) ==
    /\ conv[r].pc = "read"
    /\ \E content \in ConvertDocs :
           conv' = [conv EXCEPT ![r].pc = "parse", ![r].content = Some(content)]
    /\ UNCHANGED <<staging, archive, escVars, parseVars, slideVars, pdfVars>>

\* a convert() that makes the staging directory before it reads the markdown
\* file: open() raises with the directory already there
ReadMarkdownFails_staging_first(r) ==
    /\ conv[r].pc = "read"
    /\ staging' = [staging EXCEPT !.exists = TRUE]
    /\ Raise(r)
    /\ UNCHANGED <<archive, escVars, parseVars, slideVars, pdfVars>>

\* open() of the markdown file raises
ReadMarkdownFails(r) ==
    /\ conv[r].pc = "read"
    /\ Raise(r)
    /\ UNCHANGED <<staging, archive, escVars, parseVars, slideVars, pdfVars>>

\* self.parse_content(content)
ParseContent(r) ==
    /\ conv[r].pc = "parse"
    /\ conv' = [conv EXCEPT ![r].pc = "exists",
                             ![r].slides = parse_content(conv[r].slides, conv[r].content[1])]
    /\ UNCHANGED <<staging, archive, escVars, parseVars, slideVars, pdfVars>>

\* create_fixed_odp: if os.path.exists(temp_dir)
StagingExists(r) ==
    /\ conv[r].pc = "exists"
    /\ Goto(r, IF staging.exists THEN "rmtree" ELSE "makedirs")
    /\ UNCHANGED <<staging, archive, escVars, parseVars, slideVars, pdfVars>>

\* create_fixed_odp: shutil.rmtree(temp_dir); raises when the directory is gone
StagingRmtree(r) ==
    /\ conv[r].pc = "rmtree"
    /\ IF staging.exists
       THEN staging' = NoStaging /\ Goto(r, "makedirs")
       ELSE UNCHANGED staging /\ Raise(r)
    /\ UNCHANGED <<archive, escVars, parseVars, slideVars, pdfVars>>

\* create_fixed_odp: os.makedirs(temp_dir, exist_ok=True)
MakeDirs(r) ==
    /\ conv[r].pc = "makedirs"
    /\ staging' = [staging EXCEPT !.exists = TRUE]
    /\ Goto(r, "meta_inf")
    /\ UNCHANGED <<archive, escVars, parseVars, slideVars, pdfVars>>

\* create_fixed_odp: os.makedirs(f'{temp_dir}/META-INF', exist_ok=True)
MakeMetaInf(r) ==
    /\ conv[r].pc = "meta_inf"
    /\ staging' = [staging EXCEPT !.exists = TRUE, !.meta_inf = TRUE]
    /\ conv' = [conv EXCEPT ![r].pc = "write", ![r].k = 1]
    /\ UNCHANGED <<archive, escVars, parseVars, slideVars, pdfVars>>

\* create_fixed_odp: the k-th open(..., 'w') and write; open raises when the
\* directory is gone
WriteStaged(r) ==
    /\ conv[r].pc = "write"
    /\ LET f == StagedFiles[conv[r].k]
       IN  IF parent_exists(f)
           THEN /\ staging' = [staging EXCEPT !.files[f] =
                                   Some([data |-> file_data(conv[r], f), writer |-> r])]
                /\ conv' = [conv EXCEPT
                               ![r].pc = IF conv[r].k = Len(StagedFiles)
                                         THEN "zip_open" ELSE "write",
                               ![r].k = IF conv[r].k = Len(StagedFiles)
                                        THEN 0 ELSE conv[r].k + 1]
           ELSE UNCHANGED staging /\ Raise(r)
    /\ UNCHANGED <<archive, escVars, parseVars, slideVars, pdfVars>>

\* create_odp_file: zipfile.ZipFile(self.output_file, 'w', zipfile.ZIP_DEFLATED)
ZipOpen(r) ==
    /\ conv[r].pc = "zip_open"
    /\ archive' = [archive EXCEPT ![r] = Some(<<>>)]
    /\ Goto(r, "zip_mimetype")
    /\ UNCHANGED <<staging, escVars, parseVars, slideVars, pdfVars>>

\* the destination cannot be created: invalid path, no permission
ZipOpenFails(r) ==
    /\ conv[r].pc = "zip_open"
    /\ Raise(r)
    /\ UNCHANGED <<staging, archive, escVars, parseVars, slideVars, pdfVars>>

\* create_odp_file: odp_file.write(f'{temp_dir}/mimetype', 'mimetype')
ZipMimetype(r) ==
    /\ conv[r].pc = "zip_mimetype"
    /\ IF staging.files["mimetype"] # None
       THEN /\ archive' = [archive EXCEPT ![r] = Some(Append(@[1], zip_entry("mimetype")))]
            /\ Goto(r, "walk")
       ELSE UNCHANGED archive /\ Raise(r)
    /\ UNCHANGED <<staging, escVars, parseVars, slideVars, pdfVars>>

\* create_odp_file: os.walk(temp_dir) lists the files that are there now
ZipWalk(r) ==
    /\ conv[r].pc = "walk"
    /\ conv' = [conv EXCEPT
                   ![r].pc = "zip_files",
                   ![r].todo = SelectSeq(WalkOrder,
                                         LAMBDA f : staging.files[f] # None /\ f # "mimetype")]
    /\ UNCHANGED <<staging, archive, escVars, parseVars, slideVars, pdfVars>>

\* create_odp_file: odp_file.write(file_path, arc_path) for the next listed file
ZipFile(r) ==
    /\ conv[r].pc = "zip_files"
    /\ conv[r].todo # <<>>
    /\ LET f == Head(conv[r].todo)
       IN  IF staging.files[f] # None
           THEN /\ archive' = [archive EXCEPT ![r] = Some(Append(@[1], zip_entry(f)))]
                /\ conv' = [conv EXCEPT ![r].todo = Tail(@)]
           ELSE UNCHANGED archive /\ Raise(r)
    /\ UNCHANGED <<staging, escVars, parseVars, slideVars, pdfVars>>

\* a write to the archive raises: disk full
ZipWriteFails(r) ==
    /\ conv[r].pc \in {"zip_mimetype", "zip_files"}
    /\ Raise(r)
    /\ UNCHANGED <<staging, archive, escVars, parseVars, slideVars, pdfVars>>

\* create_odp_file returns
ZipClose(r) ==
    /\ conv[r].pc = "zip_files"
    /\ conv[r].todo = <<>>
    /\ Goto(r, "cleanup")
    /\ UNCHANGED <<staging, archive, escVars, parseVars, slideVars, pdfVars>>

\* cleanup: if os.path.exists(temp_dir)
CleanupExists(r) ==
    /\ conv[r].pc = "cleanup"
    /\ Goto(r, IF staging.exists THEN "cleanup_rmtree" ELSE "done")
    /\ UNCHANGED <<staging, archive, escVars, parseVars, slideVars, pdfVars>>

\* cleanup: shutil.rmtree(temp_dir)
CleanupRmtree(r) ==
    /\ conv[r].pc = "cleanup_rmtree"
    /\ IF staging.exists
       THEN staging' = NoStaging /\ Goto(r, "done")
       ELSE UNCHANGED staging /\ Raise(r)
    /\ UNCHANGED <<archive, escVars, parseVars, slideVars, pdfVars>>

Convert(r) ==
    \/ ReadMarkdown(r)
    \/ ReadMarkdownFails(r)
    \/ ParseContent(r)
    \/ StagingExists(r)
    \/ StagingRmtree(r)
    \/ MakeDirs(r)
    \/ MakeMetaInf(r)
    \/ WriteStaged(r)
    \/ ZipOpen(r)
    \/ ZipOpenFails(r)
    \/ ZipMimetype(r)
    \/ ZipWalk(r)
    \/ ZipFile(r)
    \/ ZipWriteFails(r)
    \/ ZipClose(r)
    \/ CleanupExists(r)
    \/ CleanupRmtree(r)

Next == \E r \in Runs : Convert(r)

Spec == Init /\ [][Next]_vars

----------------------------------------------------------------------------
(* src/scripts/pdf_to_txt.py.  A path is the sequence of its directory     *)
(* names followed by the stem and the extension of the file name.  The     *)
(* disk is a record: the set of directories and the data of each file.     *)

dirname(p) == SubSeq(p, 1, Len(p) - 2)

\* os.path.join(out_dir or dirname(pdf_path), f"{base_name}.txt")
derive_output_path(pdf_path, out_dir) ==
    (IF out_dir # None THEN out_dir[1] ELSE dirname(pdf_path))
        \o <<pdf_path[Len(pdf_path) - 1], "txt">>

isfile(f, p) == p \in DOMAIN f.files /\ f.files[p] # None
isdir(f, p) == p \in f.dirs
exists(f, p) == isfile(f, p) \/ isdir(f, p)

\* os.makedirs(d, exist_ok=True): d and the directories above it; raises when
\* one of them is there as a regular file
Prefixes(d) == {SubSeq(d, 1, k) : k \in 0..Len(d)}
makedirs_raises(f, d) == \E q \in Prefixes(d) : isfile(f, q)
makedirs(f, d) == [f EXCEPT !.dirs = @ \cup Prefixes(d)]

\* extract_text of pdfminer: the text of a PDF, an exception for other data
PdfData == <<"%PDF">>
JunkData == <<"junk">>
extract_text_raises(f, pdf_path) == f.files[pdf_path][1] # PdfData
extract_text(f, pdf_path) == <<"text", "of">> \o pdf_path

\* what pdf_to_txt hands back or raises, and the disk and the calls of
\* extract_text it leaves
Returned(ok, msg, f, calls) ==
    [raised |-> FALSE, ok |-> ok, msg |-> msg, fs |-> f, extract_calls |-> calls]
Raised(f, calls) ==
    [raised |-> TRUE, ok |-> FALSE, msg |-> <<>>, fs |-> f, extract_calls |-> calls]

\* the try block: extract_text, then open(out_path, 'w') and write
pdf_to_txt_try(f, calls, pdf_path, out_path) ==
    IF extract_text_raises(f, pdf_path) \/ isdir(f, out_path)
    THEN Returned(FALSE, <<"Error extrayendo texto">>, f,
                  Append(calls, pdf_path))
    ELSE Returned(TRUE, out_path,
                  [f EXCEPT !.files[out_path] = Some(extract_text(f, pdf_path))],
                  Append(calls, pdf_path))

\* pdf_to_txt: the result, or the exception of os.makedirs, which no try encloses
pdf_to_txt(f, calls, pdf_path, out_path_arg, overwrite) ==
    IF ~isfile(f, pdf_path)
    THEN Returned(FALSE, <<"No existe el archivo PDF">>, f, calls)
    ELSE LET out_path == IF out_path_arg = None
                         THEN derive_output_path(pdf_path, None)
                         ELSE out_path_arg[1]
         IN  IF makedirs_raises(f, dirname(out_path))
             THEN Raised(f, calls)
             ELSE LET made == makedirs(f, dirname(out_path))
                  IN  IF exists(made, out_path) /\ ~overwrite
                      THEN Returned(FALSE, <<"Salida ya existe, usa --overwrite">>,
                                    made, calls)
                      ELSE pdf_to_txt_try(made, calls, pdf_path, out_path)

\* main: the out_path of one PDF of the loop
main_out_path(a, pdf) ==
    IF Len(a.pdfs) = 1 /\ a.out # None
    THEN a.out[1]
    ELSE derive_output_path(pdf, a.out_dir)

\* return 0 if all(ok for ok, _ in results) else 1
main_status(res) == IF \A k \in 1..Len(res) : res[k].ok THEN 0 ELSE 1

\* the command lines and disks main is run on
PdfPaths ==
    {<<"a", "pdf">>, <<"sub", "a", "pdf">>, <<"bad", "pdf">>, <<"missing", "pdf">>}
OutDirArg == <<"out">>
OutArg == <<"o", "txt">>
TxtPaths ==
    {derive_output_path(p, od) : p \in PdfPaths, od \in {None, Some(OutDirArg)}}
        \cup {OutArg}
FilePaths == PdfPaths \cup TxtPaths \cup {OutDirArg}

\* the disk before main: a.pdf and sub/a.pdf are PDFs, bad.pdf is not,
\* missing.pdf is not there; 'out' is absent, a directory or a regular
\* file; the .txt files of old are there
Disk(out_kind, old) ==
    [dirs |-> {<<>>, <<"sub">>} \cup (IF out_kind = "dir" THEN {OutDirArg} ELSE {}),
     files |-> [p \in FilePaths |->
                   IF p = <<"missing", "pdf">> THEN None
                   ELSE IF p = <<"bad", "pdf">> THEN Some(JunkData)
                   ELSE IF p \in PdfPaths THEN Some(PdfData)
                   ELSE IF p = OutDirArg
                   THEN (IF out_kind = "file" THEN Some(<<"note">>) ELSE None)
                   ELSE IF p \in old THEN Some(<<"old">>)
                   ELSE None]]

\* args = parser.parse_args(argv), on some disk
MainStart ==
    /\ mpc = "idle"
    /\ \E n \in 1..MaxPdfs : \E pdfs \in [1..n -> PdfPaths] :
       \E out \in {None, Some(OutArg)} : \E out_dir \in {None, Some(OutDirArg)} :
       \E overwrite \in BOOLEAN : \E pages_ok \in BOOLEAN :
       \E out_kind \in {"absent", "dir", "file"} :
       \E old \in {o \in SUBSET TxtPaths :
                      /\ Cardinality(o) <= MaxOld
                      /\ \A t \in o : dirname(t) = OutDirArg => out_kind = "dir"} :
           /\ args' = Some([pdfs |-> pdfs, out |-> out, out_dir |-> out_dir,
                            overwrite |-> overwrite, pages_ok |-> pages_ok])
           /\ fs' = Some(Disk(out_kind, old))
    /\ mpc' = "pages"
    /\ UNCHANGED <<taken, results, extract_calls, exit_status,
                   escVars, parseVars, slideVars, convVars>>

\* page_numbers = parse_pages(args.pages): raises ValueError on a bad range
MainPages ==
    /\ mpc = "pages"
    /\ mpc' = IF args[1].pages_ok THEN "loop" ELSE "raised"
    /\ UNCHANGED <<args, fs, taken, results, extract_calls, exit_status,
                   escVars, parseVars, slideVars, convVars>>

\* one iteration of the for loop: out_path, pdf_to_txt, results.append
MainIteration ==
    /\ mpc = "loop"
    /\ taken < Len(args[1].pdfs)
    /\ LET pdf == args[1].pdfs[taken + 1]
           r == pdf_to_txt(fs[1], extract_calls, pdf,
                           Some(main_out_path(args[1], pdf)), args[1].overwrite)
       IN  IF r.raised
           THEN /\ mpc' = "raised"
                /\ UNCHANGED <<fs, taken, results, extract_calls>>
           ELSE /\ fs' = Some(r.fs)
                /\ extract_calls' = r.extract_calls
                /\ results' = Append(results, [ok |-> r.ok, msg |-> r.msg])
                /\ taken' = taken + 1
                /\ UNCHANGED mpc
    /\ UNCHANGED <<args, exit_status, escVars, parseVars, slideVars, convVars>>

\* return 0 if all(ok for ok, _ in results) else 1
MainReturn ==
    /\ mpc = "loop"
    /\ taken = Len(args[1].pdfs)
    /\ exit_status' = Some(main_status(results))
    /\ mpc' = "returned"
    /\ UNCHANGED <<args, fs, taken, results, extract_calls,
                   escVars, parseVars, slideVars, convVars>>

NextPdf == MainStart \/ MainPages \/ MainIteration \/ MainReturn

SpecPdf == Init /\ [][NextPdf]_vars

----------------------------------------------------------------------------
(* Properties of escape_xml.                                               *)

XmlReserved == {"&", "<", ">", "\"", "'"}

Entity(c) ==
    CASE c = "&" -> Amp
      [] c = "<" -> Lt
      [] c = ">" -> Gt
      [] c = "\"" -> Quot
      [] c = "'" -> Apos
      [] OTHER -> <<c>>

\* every reserved character written as its named entity, once
RECURSIVE NamedEntities(_)
NamedEntities(s) ==
    IF s = <<>> THEN <<>> ELSE Entity(Head(s)) \o NamedEntities(Tail(s))

\* what an XML parser reads back: each named entity decoded once, left to right
RECURSIVE XmlDecode(_)
XmlDecode(s) ==
    IF s = <<>> THEN <<>>
    ELSE IF \E c \in XmlReserved : startswith(s, Entity(c))
    THEN LET c == CHOOSE x \in XmlReserved : startswith(s, Entity(x))
         IN  <<c>> \o XmlDecode(SliceFrom(s, Len(Entity(c))))
    ELSE <<Head(s)>> \o XmlDecode(Tail(s))

\* C1: escape_xml is idempotent: escaping the result of escape_xml again
\* gives that result back.
C1_EscapeIdempotent ==
    Len(escaped) >= 2 => escaped[2] = escaped[1]

\* C2: escaping round-trips: decoding the named entities of escape_xml(s) once
\* yields s, and each reserved character of s appears as exactly its one
\* named entity.
C2_EscapeRoundTrip ==
    (escaped # <<>> /\ \E i \in 1..Len(text0) : text0[i] \in XmlReserved)
        => /\ XmlDecode(escaped[1]) = text0
           /\ escaped[1] = NamedEntities(text0)

----------------------------------------------------------------------------
(* Properties of the line classification of parse_content.                 *)

Level2Marker == <<"#", "#", " ">>

\* the text after a marker of n characters, trimmed
Remainder(ln, n) == strip(SubSeq(ln, n + 1, Len(ln)))

WordChar(c) == c \in Letters \cup Digits \cup {"_"}
KeptInTitle(c) == WordChar(c) \/ c \in {" ", "\n"} \/ c = "-"

NoReserved(s) == \A i \in 1..Len(s) : s[i] \notin XmlReserved

\* ParseLine is about to classify a non-empty line inside an open slide
\* record that does not itself open a new record
ContentLineNext ==
    /\ ppc = "loop"
    /\ lines # <<>>
    /\ current_slide # None
    /\ strip(Head(lines)) # <<>>
    /\ ~startswith(strip(Head(lines)), Level2Marker)

NextLineText == strip(Head(lines))

\* a pipe-delimited row, its cells (trimmed, empty outer cells discarded)
PipeRow(ln) == Len(ln) >= 2 /\ ln[1] = "|" /\ \E i \in 2..Len(ln) : ln[i] = "|"

RowCells(ln) ==
    LET segs == split(ln, "|")
        trimmed == [i \in 1..Len(segs) |-> strip(segs[i])]
        first == IF trimmed[1] = <<>> THEN 2 ELSE 1
        last == IF trimmed[Len(segs)] = <<>> THEN Len(segs) - 1 ELSE Len(segs)
    IN  SubSeq(trimmed, first, last)

\* dashes under pipes: every cell is a run of dashes
SeparatorRow(ln) ==
    /\ PipeRow(ln)
    /\ RowCells(ln) # <<>>
    /\ \A i \in 1..Len(RowCells(ln)) :
           /\ RowCells(ln)[i] # <<>>
           /\ \A j \in 1..Len(RowCells(ln)[i]) : RowCells(ln)[i][j] = "-"

DataRow(ln) ==
    /\ PipeRow(ln)
    /\ ~SeparatorRow(ln)
    /\ RowCells(ln) # <<>>
    /\ RowCells(ln)[1] # <<>>

PlainText(s) == [type |-> "text", text |-> s]

\* C8: inside an open slide record a header-separator row appends no block,
\* and a data row with a non-empty first cell appends exactly one PlainText
\* block: all its cells, trimmed, joined by " | ".
C8_TableRows ==
    [][ContentLineNext
        => /\ SeparatorRow(NextLineText) => current_content' = current_content
           /\ DataRow(NextLineText) =>
                  current_content' =
                      Append(current_content,
                             PlainText(join(RowCells(NextLineText), <<" ", "|", " ">>)))
      ]_vars

\* the fixed rule order of the claim, first match wins; table rows are left
\* to C8 but for the type of the block
RuleBlocks(ln) ==
    IF startswith(ln, <<"#", "#", "#", " ">>)
    THEN {<<[type |-> "subtitle", text |-> Remainder(ln, 4)]>>}
    ELSE IF startswith(ln, <<"-", " ">>)
    THEN {<<[type |-> "bullet", text |-> Remainder(ln, 2)]>>}
    ELSE IF Len(ln) >= 4 /\ startswith(ln, <<"*", "*">>) /\ endswith(ln, <<"*", "*">>)
    THEN {<<[type |-> "bold", text |-> strip(SubSeq(ln, 3, Len(ln) - 2))]>>}
    ELSE IF PipeRow(ln)
    THEN {<<>>} \cup {<<PlainText(join(c, <<" ", "|", " ">>))>> :
                          c \in {SubSeq(RowCells(ln), 1, k) : k \in 1..Len(RowCells(ln))}}
    ELSE IF ~startswith(ln, <<"-", "-", "-">>)
    THEN {<<PlainText(ln)>>}
    ELSE {<<>>}

\* C9: inside an open slide record every non-empty trimmed line is
\* classified by the first matching rule of the fixed order Subtitle, Bullet,
\* Bold (long enough to hold both markers), table row, PlainText; a line
\* that is no horizontal rule and matches no earlier rule appends a
\* PlainText block holding the line verbatim.
C9_RuleOrder ==
    [][ContentLineNext =>
          \E bs \in RuleBlocks(NextLineText) : current_content' = current_content \o bs
      ]_vars

\* C10: after a level-2 marker line the open record's title is the line's
\* remainder with exactly the characters outside {word, whitespace, hyphen}
\* removed, order kept; no title holds an XML-reserved character.
C10_TitleSanitized ==
    /\ (ppc = "loop" /\ startswith(line, Level2Marker))
          => /\ current_slide # None
             /\ current_slide[1].title = SelectSeq(Remainder(line, 3), KeptInTitle)
    /\ current_slide # None => NoReserved(current_slide[1].title)
    /\ \A i \in 1..Len(slides) : NoReserved(slides[i].title)

\* a title line whose remainder held a reserved character has been filtered,
\* and two kept characters, a hyphen among them, survive
C10_Witness ==
    /\ ppc = "done"
    /\ startswith(line, Level2Marker)
    /\ ~NoReserved(line)
    /\ Len(slides) = 1
    /\ Len(slides[1].title) = 2
    /\ \E i \in 1..2 : slides[1].title[i] = "-"
    /\ \E i \in 1..2 : WordChar(slides[1].title[i])

----------------------------------------------------------------------------
(* Properties of parse_content and create_content_xml on whole documents.  *)

\* the lines of the document handed to parse_content, each trimmed
DocLine(i) == strip(split(markdown, "\n")[i])
DocLineCount == Len(split(markdown, "\n"))

\* the positions of the level-2 marker lines, in document order
MarkerLines ==
    SelectSeq([i \in 1..DocLineCount |-> i],
              LAMBDA i : startswith(DocLine(i), Level2Marker))

\* the blocks the lines strictly between positions a and b produce
RECURSIVE BlocksBetween(_, _)
BlocksBetween(a, b) ==
    IF a + 1 >= b THEN <<>>
    ELSE content_blocks(DocLine(a + 1)) \o BlocksBetween(a + 1, b)

\* where the section of the j-th marker line ends
SectionEnd(j) ==
    IF j < Len(MarkerLines) THEN MarkerLines[j + 1] ELSE DocLineCount + 1

ParseReturned == ppc \in {"done", "written"}

\* C14: after parse_content on a fresh converter there is exactly one slide
\* record per level-2 marker line, in document order, and the content of
\* each is exactly the blocks of the lines between its marker and the next
\* marker or the end of input, in source order; lines before the first
\* marker reach no record and the last open record is appended.
C14_SlidesPartitionDocument ==
    ParseReturned
        => /\ Len(slides) = Len(MarkerLines)
           /\ \A j \in 1..Len(MarkerLines) :
                  /\ slides[j].title =
                         SelectSeq(Remainder(DocLine(MarkerLines[j]), 3), KeptInTitle)
                  /\ slides[j].content = BlocksBetween(MarkerLines[j], SectionEnd(j))

\* a content line before the first marker, a section ended by the next
\* marker, and a section holding a block that the end of input closes
C14_Witness ==
    /\ ppc = "done"
    /\ Len(MarkerLines) = 2
    /\ MarkerLines[1] = 2
    /\ content_blocks(DocLine(1)) # <<>>
    /\ DocLineCount = 4
    /\ Len(slides) = 2
    /\ slides[1].title # slides[2].title
    /\ Len(slides[1].content) + Len(slides[2].content) = 1

\* elements of content.xml as the model lists them
OpenTags ==
    {"office:document-content", "office:automatic-styles", "office:master-styles",
     "office:body", "office:presentation", "draw:page"}

\* the declaration, empty elements, and a frame written whole
StandaloneTags == {"?xml", "office:scripts/", "office:font-face-decls/", "draw:frame"}

CloseTag(t) ==
    CASE t = "office:document-content" -> "/office:document-content"
      [] t = "office:automatic-styles" -> "/office:automatic-styles"
      [] t = "office:master-styles" -> "/office:master-styles"
      [] t = "office:body" -> "/office:body"
      [] t = "office:presentation" -> "/office:presentation"
      [] t = "draw:page" -> "/draw:page"

\* every element opened is closed, innermost first; open holds the tags
\* still open, innermost first
RECURSIVE Balanced(_, _)
Balanced(xml, open) ==
    IF xml = <<>> THEN open = <<>>
    ELSE LET t == Head(xml).tag
         IN  IF t \in StandaloneTags THEN Balanced(Tail(xml), open)
             ELSE IF t \in OpenTags THEN Balanced(Tail(xml), <<t>> \o open)
             ELSE /\ open # <<>>
                  /\ t = CloseTag(Head(open))
                  /\ Balanced(Tail(xml), Tail(open))

TagCount(xml, t) == Cardinality({i \in 1..Len(xml) : xml[i].tag = t})

\* the skeleton: document-content holds body holds presentation, each once
Skeleton(xml) ==
    /\ \A t \in {"office:document-content", "office:body", "office:presentation"} :
           TagCount(xml, t) = 1 /\ TagCount(xml, CloseTag(t)) = 1
    /\ \E i, j, k \in 1..Len(xml) :
           /\ i < j /\ j < k
           /\ xml[i].tag = "office:document-content"
           /\ xml[j].tag = "office:body"
           /\ xml[k].tag = "office:presentation"

\* C11: a document with no level-2 marker line parses to an empty slide
\* sequence, and content.xml built from an empty slide sequence has no page
\* element and still the complete, balanced document skeleton.
C11_NoMarkerNoPage ==
    /\ (ParseReturned /\ MarkerLines = <<>>) => slides = <<>>
    /\ (ppc = "written" /\ slides = <<>>)
          => /\ TagCount(content_lines, "draw:page") = 0
             /\ TagCount(content_lines, "/draw:page") = 0
             /\ Skeleton(content_lines)
             /\ Balanced(content_lines, <<>>)

\* a document of several lines that would be content inside a slide, none
\* of them a level-2 marker line, has been parsed and generated
C11_Witness ==
    /\ ppc = "written"
    /\ DocLineCount >= 3
    /\ MarkerLines = <<>>
    /\ \E i, j \in 1..DocLineCount :
           /\ startswith(DocLine(i), <<"#", "#", "#", " ">>)
           /\ DocLine(j) = <<"#", "#">>
    /\ slides = <<>>
    /\ content_lines # <<>>

----------------------------------------------------------------------------
(* Properties of create_slide_xml_lines.                                   *)

BlockTypes == {"subtitle", "bullet", "bold", "text"}

Qualifying(b) == b.type \in BlockTypes /\ b.text # <<>>

\* the qualifying blocks of the slide handed in, in source order
QualifyingBlocks == SelectSeq(slide_data[1].content, Qualifying)

\* the content shapes of the finished page: all but page open, title shape
\* and page close
ContentShapes == SubSeq(xml_lines, 3, Len(xml_lines) - 1)

\* the shape a block is due, bold laid out as plain text, at offset y
ShapeOf(b, y) ==
    CASE b.type = "subtitle" -> Frame("gr2", "P2", 6, 14, y + 8, escape_xml(b.text))
      [] b.type = "bullet" -> Frame("gr3", "P3", 5, 20, y + 5, BulletGlyph \o escape_xml(b.text))
      [] OTHER -> Frame("gr3", "P3", 4, 14, y + 4, escape_xml(b.text))

\* the running offset before the i-th content shape
OffsetBefore(i) == IF i = 1 THEN 40 ELSE ContentShapes[i - 1].y

\* a shape shows block b: same paragraph style, indent, height and text
Shows(shape, b) ==
    LET due == ShapeOf(b, 0)
    IN  /\ shape.p = due.p
        /\ shape.x = due.x
        /\ shape.height = due.height
        /\ shape.text = due.text

\* C6: a slide with more than 8 qualifying blocks (Subtitle, Bullet, Bold or
\* PlainText with non-empty text) yields the title shape plus exactly 8
\* content shapes, those of its first 8 qualifying blocks in source order.
C6_CapFirstEight ==
    (gpc = "done" /\ Len(QualifyingBlocks) > 8)
        => /\ xml_lines[2] = TitleFrame(slide_data[1].title)
           /\ Len(ContentShapes) = 8
           /\ \A i \in 1..8 : Shows(ContentShapes[i], QualifyingBlocks[i])

\* C7: every Bold block with non-empty text within the cap is emitted as
\* its own content shape, laid out like a PlainText block: same vertical
\* increment, horizontal offset and height.
C7_BoldEmitted ==
    gpc = "done"
        => \A i \in 1..Len(QualifyingBlocks) :
              (i <= 8 /\ QualifyingBlocks[i].type = "bold")
                 => /\ Len(ContentShapes) >= i
                    /\ ContentShapes[i] = ShapeOf(QualifyingBlocks[i], OffsetBefore(i))

----------------------------------------------------------------------------
(* Properties of convert(): the archive and the staging directory.         *)

\* create_odp_file has returned for run r
ArchiveProduced(r) == conv[r].pc \in {"cleanup", "cleanup_rmtree", "done"}

\* C3: in every archive create_odp_file produces, the first entry is named
\* mimetype, is stored without compression and holds exactly the media-type
\* literal; every other entry comes after it and is compressed.
C3_MimetypeStoredFirst ==
    \A r \in Runs :
        ArchiveProduced(r)
            => LET entries == archive[r][1]
               IN  /\ Len(entries) >= 1
                   /\ entries[1].name = "mimetype"
                   /\ entries[1].compress_type = ZIP_STORED
                   /\ entries[1].data = "application/vnd.oasis.opendocument.presentation"
                   /\ \A i \in 2..Len(entries) :
                          /\ entries[i].name # "mimetype"
                          /\ entries[i].compress_type = ZIP_DEFLATED

\* run r is over, by returning or by an exception
Terminal(r) == conv[r].pc \in {"done", "failed"}

\* run r got as far as creating the staging directory
CreatedStaging(r) ==
    \/ conv[r].pc = "done"
    \/ /\ conv[r].pc = "failed"
       /\ conv[r].raised[1] \notin {"read", "parse", "exists", "rmtree", "makedirs"}

\* no other run has started
Alone(r) == \A q \in Runs \ {r} : conv[q].pc = "read"

\* C4: a run that has created the staging directory ends with the staging
\* directory removed, whether the archive write succeeded or failed.
C4_StagingRemoved ==
    \A r \in Runs :
        (Terminal(r) /\ CreatedStaging(r) /\ Alone(r)) => ~staging.exists

\* C5: each run owns its staging area: the archive of a run holds only
\* artifacts that run staged itself, and no run ends on an exception because
\* another run removed or replaced its staging files.
C5_StagingExclusive ==
    \A r \in Runs :
        /\ archive[r] # None =>
               \A i \in 1..Len(archive[r][1]) : archive[r][1][i].writer = r
        /\ \A f \in StagedNames :
               (conv[r].pc \in {"zip_open", "zip_mimetype", "walk"}
                   /\ conv[r].raised = None)
                   => /\ staging.files[f] # None
                      /\ staging.files[f][1].writer = r

\* convert() of run r ended on the exception read_markdown raised
FailedReading(r) == conv[r].pc = "failed" /\ conv[r].raised = Some("read")

\* C12: when reading the source document fails, convert() fails before the
\* staging directory is created or touched and before any archive is
\* written: the failing step changes no file, and in the failure state the
\* run has no output archive and has staged no file.
C12_ReadFailureTouchesNothing ==
    /\ [](\A r \in Runs :
             FailedReading(r)
                 => /\ archive[r] = None
                    /\ \A f \in StagedNames :
                           staging.files[f] # None => staging.files[f][1].writer # r)
    /\ [][\A r \in Runs :
             (conv[r].pc = "read" /\ conv'[r].pc = "failed")
                 => staging' = staging /\ archive' = archive
        ]_vars

\* a run has failed reading in a working directory where an earlier run left
\* its staging directory and its archive: both are still there
C12_Witness ==
    \E r \in Runs : \E q \in Runs \ {r} :
        /\ FailedReading(r)
        /\ archive[r] = None
        /\ conv[q].pc = "failed"
        /\ archive[q] # None
        /\ staging.exists
        /\ \A f \in StagedNames : staging.files[f] # None

----------------------------------------------------------------------------
(* Properties of src/scripts/pdf_to_txt.py.                                *)

\* the loop of main is about to take the next PDF
IterationNext == mpc = "loop" /\ taken < Len(args[1].pdfs)

NextOutPath == main_out_path(args[1], args[1].pdfs[taken + 1])

\* main is over, by returning or by an exception, after it reached the loop
MainOver == mpc \in {"returned", "raised"} /\ args[1].pages_ok

AllConverted ==
    /\ Len(results) = Len(args[1].pdfs)
    /\ \A k \in 1..Len(results) : results[k].ok

\* C13: without overwrite no file that exists is overwritten: when the
\* output path exists, pdf_to_txt returns (False, message) without running
\* extraction and leaves the file as it was; main returns 0 exactly when
\* every listed PDF converted, and takes every listed PDF even after one
\* failed.
C13_NoOverwriteAllProcessed ==
    /\ [][(IterationNext /\ ~args[1].overwrite)
              => \A p \in FilePaths :
                     fs[1].files[p] # None => fs'[1].files[p] = fs[1].files[p]
        ]_vars
    /\ [][(IterationNext /\ ~args[1].overwrite /\ exists(fs[1], NextOutPath))
              => /\ Len(results') = Len(results) + 1
                 /\ ~results'[Len(results')].ok
                 /\ extract_calls' = extract_calls
                 /\ fs'[1].files = fs[1].files
        ]_vars
    /\ [](mpc = "returned" => (exit_status = Some(0) <=> AllConverted))
    /\ [](MainOver => Len(results) = Len(args[1].pdfs))

====
